---- MODULE Spec2Model ----
(***************************************************************************)
(* A model of the ICNet training script (src/train_icnet_mulit.py) and of  *)
(* the metric / loss helpers of src/utils.py.                              *)
(*                                                                         *)
(*   Spec        main / train / validate of train_icnet_mulit.py           *)
(*   SpecMiou    calculate_mean_iu of utils.py                             *)
(*   SpecScores  _fast_hist / scores of utils.py                           *)
(*   SpecFocal   FocalSigmoidLossFuncV2.forward of utils.py                *)
(*                                                                         *)
(* Floating point values are kept in fixed point, in units of 1/Scale.     *)
(* The additive 1e-9 of calculate_mean_iu is far below that resolution and *)
(* is carried symbolically: a quantity c + e * 1e-9 is the pair <<c, e>>.  *)
(***************************************************************************)
EXTENDS Integers, Sequences, FiniteSets, TLC

VARIABLES
    pc,          \* control point of the script (line of the next statement)
    mode,        \* net.training: "train" or "eval"
    calc,        \* which calculate_mean_iu the star import of line 18 binds
    nTrain,      \* len(train_loader)
    nVal,        \* len(val_loader)
    maxEpoch,    \* cfg.TRAIN.MAX_EPOCH
    epoch,       \* loop variable of main, -1 before the loop
    bi,          \* batches of the current train() call already processed
    vi,          \* batches of the current validate() call already processed
    batchOps,    \* the optimisation steps applied to the batch in progress
    lastBatch,   \* the steps that were applied to the last finished batch
    grads,       \* parameter gradients: "none", "zero" or "fresh"
    optSteps,    \* number of optimizer.step() calls
    schedSteps,  \* number of scheduler.step() calls
    epochsDone,  \* number of train() calls of main that have returned
    valReturns,  \* number of validate() calls that have returned
    cur,         \* the validation batch in hand: <<predicted, labels>>
    acc,         \* mean_classe0..4 and mean_tot of validate
    printed,     \* the six averages printed by the last validate, or <<>>
    err,         \* the exception that ended the run, or "none"
    lastFwd,     \* who made the last forward pass, and in which mode
    mi,          \* state of a calculate_mean_iu call   (SpecMiou)
    sc,          \* state of a scores call              (SpecScores)
    fl           \* state of a focal loss forward call  (SpecFocal)

drv == <<pc, mode, calc, nTrain, nVal, maxEpoch, epoch, bi, vi, batchOps,
         lastBatch, grads, optSteps, schedSteps, epochsDone, valReturns,
         cur, acc, printed, err, lastFwd>>
vars == <<drv, mi, sc, fl>>

----------------------------------------------------------------------------
(* Bounds of the model.                                                    *)
MaxTrainBatches == 2
MaxValBatches == 2
MaxEpochs == 2
MaxPix == 3

(* Resolution of the fixed point values: 1/Scale.                          *)
Scale == 10 ^ 4

Idle == [on |-> FALSE]

RECURSIVE SumSeq(_)
SumSeq(s) == IF s = <<>> THEN 0 ELSE Head(s) + SumSeq(Tail(s))

----------------------------------------------------------------------------
(* calculate_mean_iu (utils.py)                                            *)

Eps == <<0, 1>>

\* x += c for an integer count c (np.sum of a boolean array)
AddCount(x, c) == <<x[1] + c, x[2]>>
Plus(x, y) == <<x[1] + y[1], x[2] + y[2]>>
Minus(x, y) == <<x[1] - y[1], x[2] - y[2]>>

\* float(x) / y in units of 1/Scale.  With a count in the denominator the
\* 1e-9 terms change the quotient by less than 1e-9; with none, the quotient
\* is the ratio of the 1e-9 terms.  x / 0.0 is an error in Python ("nan").
Quot(x, y) ==
    IF y[1] # 0 THEN (x[1] * Scale) \div y[1]
    ELSE IF y[2] = 0 THEN "nan"
    ELSE IF x[1] # 0 THEN "inf"
    ELSE (x[2] * Scale) \div y[2]

\* np.sum(gt[p == i] == i): select gt where p is i, then count the i among them
RECURSIVE CountSelEq(_, _, _)
CountSelEq(p, gt, i) ==
    IF p = <<>> THEN 0
    ELSE (IF Head(p) = i /\ Head(gt) = i THEN 1 ELSE 0)
         + CountSelEq(Tail(p), Tail(gt), i)

\* np.sum(a == i)
RECURSIVE CountEq(_, _)
CountEq(a, i) ==
    IF a = <<>> THEN 0
    ELSE (IF Head(a) = i THEN 1 ELSE 0) + CountEq(Tail(a), i)

\* lines 28-32: the three accumulators of class i after the zip loop
RECURSIVE ClassAccum(_, _, _, _)
ClassAccum(predictions, gts, i, a) ==
    IF predictions = <<>> \/ gts = <<>> THEN a
    ELSE LET p == Head(predictions)
             gt == Head(gts)
         IN  ClassAccum(Tail(predictions), Tail(gts), i,
                 [n_ii |-> AddCount(a.n_ii, CountSelEq(p, gt, i)),
                  t_i |-> AddCount(a.t_i, CountEq(gt, i)),
                  sum_n_ji |-> AddCount(a.sum_n_ji, CountEq(p, i))])

\* line 33: float(n_ii) / (t_i + sum_n_ji - n_ii)
\* (a variant that leaves out the subtraction of n_ii)
ClassIuMutNoMinus(a) == Quot(a.n_ii, Plus(a.t_i, a.sum_n_ji))
ClassIu(a) == Quot(a.n_ii, Minus(Plus(a.t_i, a.sum_n_ji), a.n_ii))

\* line 28: n_ii = t_i = sum_n_ji = 1e-9
\* (a variant that starts n_ii at 0)
ClassIuOfMutZeroInit(predictions, gts, i) ==
    ClassIu(ClassAccum(predictions, gts, i,
                       [n_ii |-> <<0, 0>>, t_i |-> Eps, sum_n_ji |-> Eps]))
ClassIuOf(predictions, gts, i) ==
    ClassIu(ClassAccum(predictions, gts, i,
                       [n_ii |-> Eps, t_i |-> Eps, sum_n_ji |-> Eps]))

\* lines 26-35: a single float
calculate_mean_iu(predictions, gts, num_classes) ==
    LET ius == [c \in 1..num_classes |-> ClassIuOf(predictions, gts, c - 1)]
    IN  [tag |-> "float", v |-> SumSeq(ius) \div num_classes]

\* The six values the call of validate unpacks (mean0 .. mean4, mean5):
\* the per class IoU and their mean.
calculate_mean_iu_six(predictions, gts, num_classes) ==
    LET ius == [c \in 1..num_classes |-> ClassIuOf(predictions, gts, c - 1)]
    IN  [tag |-> "tuple",
         items |-> ius \o <<SumSeq(ius) \div num_classes>>]

----------------------------------------------------------------------------
(* main / train / validate (train_icnet_mulit.py)                          *)

\* cfg.DATA.NUM_CLASSES, as the five per class lines validate prints
NumClassesCfg == 5

\* The batches the validation loader and the network may produce:
\* <<predicted, labels>>, flattened
ValBatches == { <<<<0, 0>>, <<0, 0>>>>, <<<<1, 0>>, <<0, 0>>>>,
                <<<<2, 4>>, <<-1, 4>>>> }

NoFwd == [fn |-> "none", mode |-> "none"]
Zero6 == <<0, 0, 0, 0, 0, 0>>

DriverIdle ==
    /\ pc = "idle" /\ mode = "train" /\ calc = "utils"
    /\ nTrain = 0 /\ nVal = 0 /\ maxEpoch = 0
    /\ epoch = -1 /\ bi = 0 /\ vi = 0
    /\ batchOps = <<>> /\ lastBatch = <<>> /\ grads = "none"
    /\ optSteps = 0 /\ schedSteps = 0 /\ epochsDone = 0 /\ valReturns = 0
    /\ cur = <<>> /\ acc = Zero6 /\ printed = <<>>
    /\ err = "none" /\ lastFwd = NoFwd

\* The state when main is entered: ICNet() is constructed (a module is in
\* training mode when constructed), the loaders are built.
Init ==
    /\ pc = "m49" /\ mode = "train"
    /\ calc \in {"utils", "utils2"}
    /\ nTrain \in 0..MaxTrainBatches
    /\ nVal \in 0..MaxValBatches
    /\ maxEpoch \in 1..MaxEpochs
    /\ epoch = -1 /\ bi = 0 /\ vi = 0
    /\ batchOps = <<>> /\ lastBatch = <<>> /\ grads = "none"
    /\ optSteps = 0 /\ schedSteps = 0 /\ epochsDone = 0 /\ valReturns = 0
    /\ cur = <<>> /\ acc = Zero6 /\ printed = <<>>
    /\ err = "none" /\ lastFwd = NoFwd
    /\ mi = Idle /\ sc = Idle /\ fl = Idle

\* lines 49-55: net.train(), criterion, optimizer, scheduler, first validate
Main_setup ==
    /\ pc = "m49"
    /\ mode' = "train"
    /\ pc' = "v81"
    /\ UNCHANGED <<calc, nTrain, nVal, maxEpoch, epoch, bi, vi, batchOps,
                   lastBatch, grads, optSteps, schedSteps, epochsDone,
                   valReturns, cur, acc, printed, err, lastFwd, mi, sc, fl>>

\* line 56-58: for epoch in range(MAX_EPOCH): train(...)
Main_for_epoch ==
    /\ pc = "m56"
    /\ IF epoch + 1 < maxEpoch
       THEN /\ epoch' = epoch + 1
            /\ bi' = 0
            /\ pc' = "t68"
       ELSE /\ pc' = "done"
            /\ UNCHANGED <<epoch, bi>>
    /\ UNCHANGED <<mode, calc, nTrain, nVal, maxEpoch, vi, batchOps,
                   lastBatch, grads, optSteps, schedSteps, epochsDone,
                   valReturns, cur, acc, printed, err, lastFwd, mi, sc, fl>>

\* line 68: for i, data in enumerate(train_loader); train returns to line 59
\* when the loader is exhausted, and main goes on to validate (line 62)
Train_next ==
    /\ pc = "t68"
    /\ IF bi < nTrain
       THEN /\ pc' = "t73"
            /\ batchOps' = <<>>
            /\ UNCHANGED epochsDone
       ELSE /\ pc' = "v81"
            /\ epochsDone' = epochsDone + 1
            /\ UNCHANGED batchOps
    /\ UNCHANGED <<mode, calc, nTrain, nVal, maxEpoch, epoch, bi, vi,
                   lastBatch, grads, optSteps, schedSteps,
                   valReturns, cur, acc, printed, err, lastFwd, mi, sc, fl>>

\* line 73: optimizer.zero_grad()
Train_zero_grad ==
    /\ pc = "t73"
    /\ grads' = "zero"
    /\ batchOps' = Append(batchOps, "zero_grad")
    /\ pc' = "t74"
    /\ UNCHANGED <<mode, calc, nTrain, nVal, maxEpoch, epoch, bi, vi,
                   lastBatch, optSteps, schedSteps, epochsDone,
                   valReturns, cur, acc, printed, err, lastFwd, mi, sc, fl>>

\* line 74: outputs = net(inputs)
Train_forward ==
    /\ pc = "t74"
    /\ lastFwd' = [fn |-> "train", mode |-> mode]
    /\ batchOps' = Append(batchOps, "forward")
    /\ pc' = "t75"
    /\ UNCHANGED <<mode, calc, nTrain, nVal, maxEpoch, epoch, bi, vi,
                   lastBatch, grads, optSteps, schedSteps, epochsDone,
                   valReturns, cur, acc, printed, err, mi, sc, fl>>

\* line 75: loss = criterion(outputs, labels)
Train_loss ==
    /\ pc = "t75"
    /\ batchOps' = Append(batchOps, "loss")
    /\ pc' = "t76"
    /\ UNCHANGED <<mode, calc, nTrain, nVal, maxEpoch, epoch, bi, vi,
                   lastBatch, grads, optSteps, schedSteps, epochsDone,
                   valReturns, cur, acc, printed, err, lastFwd, mi, sc, fl>>

\* line 76: optimizer.step() follows the loss directly
Train_optimizer_step ==
    /\ pc = "t76"
    /\ optSteps' = optSteps + 1
    /\ batchOps' = <<>>
    /\ lastBatch' = Append(batchOps, "step")
    /\ bi' = bi + 1
    /\ pc' = "t68"
    /\ UNCHANGED <<mode, calc, nTrain, nVal, maxEpoch, epoch, vi,
                   grads, schedSteps, epochsDone,
                   valReturns, cur, acc, printed, err, lastFwd, mi, sc, fl>>

\* lines 81-93: net.eval(), the accumulators are zeroed
Validate_enter ==
    /\ pc = "v81"
    /\ mode' = "eval"
    /\ acc' = Zero6
    /\ vi' = 0
    /\ pc' = "v95"
    /\ UNCHANGED <<calc, nTrain, nVal, maxEpoch, epoch, bi, batchOps,
                   lastBatch, grads, optSteps, schedSteps, epochsDone,
                   valReturns, cur, printed, err, lastFwd, mi, sc, fl>>

\* line 95: for vi, data in enumerate(val_loader)
Validate_next ==
    /\ pc = "v95"
    /\ pc' = IF vi < nVal THEN "v99" ELSE "v119"
    /\ UNCHANGED <<mode, calc, nTrain, nVal, maxEpoch, epoch, bi, vi,
                   batchOps, lastBatch, grads, optSteps, schedSteps,
                   epochsDone, valReturns, cur, acc, printed, err, lastFwd,
                   mi, sc, fl>>

\* lines 96-108: forward pass, softmax, argmax
Validate_forward ==
    /\ pc = "v99"
    /\ lastFwd' = [fn |-> "validate", mode |-> mode]
    /\ \E b \in ValBatches : cur' = b
    /\ pc' = "v110"
    /\ UNCHANGED <<mode, calc, nTrain, nVal, maxEpoch, epoch, bi, vi,
                   batchOps, lastBatch, grads, optSteps, schedSteps,
                   epochsDone, valReturns, acc, printed, err, mi, sc, fl>>

\* The calculate_mean_iu that `from utils2 import *` (line 18) binds
CalcBound(predictions, gts, num_classes) ==
    IF calc = "utils" THEN calculate_mean_iu(predictions, gts, num_classes)
    ELSE calculate_mean_iu_six(predictions, gts, num_classes)

\* mean0, mean1, mean2, mean3, mean4, mean5 = <value>
CanUnpack6(value) == value.tag = "tuple" /\ Len(value.items) = 6

\* lines 110-117: the call, the unpacking and the six additions
Validate_accumulate ==
    /\ pc = "v110"
    /\ LET value == CalcBound(<<cur[1]>>, <<cur[2]>>, NumClassesCfg)
       IN  IF CanUnpack6(value)
           THEN /\ acc' = [k \in 1..6 |-> acc[k] + value.items[k]]
                /\ vi' = vi + 1
                /\ pc' = "v95"
                /\ UNCHANGED err
           ELSE /\ err' = "TypeError"
                /\ pc' = "aborted"
                /\ UNCHANGED <<acc, vi>>
    /\ UNCHANGED <<mode, calc, nTrain, nVal, maxEpoch, epoch, bi,
                   batchOps, lastBatch, grads, optSteps, schedSteps,
                   epochsDone, valReturns, cur, printed, lastFwd,
                   mi, sc, fl>>

\* lines 119-124: the six averages over len(val_loader) are printed
Validate_print ==
    /\ pc = "v119"
    /\ IF nVal = 0
       THEN /\ err' = "ZeroDivisionError"
            /\ pc' = "aborted"
            /\ UNCHANGED printed
       ELSE /\ printed' = [k \in 1..6 |-> acc[k] \div nVal]
            /\ pc' = "v131"
            /\ UNCHANGED err
    /\ UNCHANGED <<mode, calc, nTrain, nVal, maxEpoch, epoch, bi, vi,
                   batchOps, lastBatch, grads, optSteps, schedSteps,
                   epochsDone, valReturns, cur, acc, lastFwd, mi, sc, fl>>

\* lines 131-132: net.train(), and validate returns to main
\* (a variant without net.train())
Validate_exitMutNoTrain ==
    /\ pc = "v131"
    /\ valReturns' = valReturns + 1
    /\ pc' = "m56"
    /\ UNCHANGED <<mode, calc, nTrain, nVal, maxEpoch, epoch, bi, vi,
                   batchOps, lastBatch, grads, optSteps, schedSteps,
                   epochsDone, cur, acc, printed, err, lastFwd, mi, sc, fl>>
Validate_exit ==
    /\ pc = "v131"
    /\ mode' = "train"
    /\ valReturns' = valReturns + 1
    /\ pc' = "m56"
    /\ UNCHANGED <<calc, nTrain, nVal, maxEpoch, epoch, bi, vi,
                   batchOps, lastBatch, grads, optSteps, schedSteps,
                   epochsDone, cur, acc, printed, err, lastFwd, mi, sc, fl>>

Next ==
    \/ Main_setup
    \/ Main_for_epoch
    \/ Train_next
    \/ Train_zero_grad
    \/ Train_forward
    \/ Train_loss
    \/ Train_optimizer_step
    \/ Validate_enter
    \/ Validate_next
    \/ Validate_forward
    \/ Validate_accumulate
    \/ Validate_print
    \/ Validate_exit

Spec == Init /\ [][Next]_vars

----------------------------------------------------------------------------
(* Claims about main / train / validate                                    *)

FullBatch == <<"zero_grad", "forward", "loss", "backward", "step">>

\* C1: every batch of train goes through zero_grad, forward, loss,
\* backward, optimizer step in this order: no optimizer step happens for a
\* batch without a backward pass after the gradients were zeroed.
C1_BatchStepOrder ==
    /\ lastBatch # <<>> => lastBatch = FullBatch
    /\ optSteps > 0 => grads = "fresh"

\* C2: after k completed training epochs of main the scheduler has been
\* stepped exactly k times.
C2_SchedulerStepPerEpoch == schedSteps = epochsDone

\* C3: with a non-empty validation loader no batch makes validate abort:
\* every batch is accumulated, the averages are printed, validate returns.
C3_ValidateCompletes == nVal > 0 => (err = "none" /\ pc # "aborted")

\* C10: validate puts the model in evaluation mode before its first
\* forward pass, the model is in training mode whenever validate has
\* returned, every forward pass of train runs in training mode and every
\* forward pass of validate in evaluation mode.
C10_ModeDiscipline ==
    /\ pc \in {"v95", "v99", "v110", "v119", "v131"} => mode = "eval"
    /\ lastFwd.fn = "validate" => lastFwd.mode = "eval"
    /\ lastFwd.fn = "train" => lastFwd.mode = "train"
    /\ pc \in {"m56", "t68", "t73", "t74", "t75", "t76", "done"}
           => mode = "train"

\* a validation forward pass that follows a training epoch with batches,
\* itself following a validate that returned
C10_Witness ==
    /\ lastFwd.fn = "validate"
    /\ optSteps > 0
    /\ valReturns > 0
    /\ pc = "v110"

----------------------------------------------------------------------------
(* SpecMiou: calls of calculate_mean_iu                                    *)

\* num_classes of a call, and the labels a map may hold (-1: ignore)
ClassCounts == {2, 3}
GtLabels == -1..2
PredLabels == 0..2

\* The maps of a call: a flat run of pixels cut into maps of c pixels
RECURSIVE Chunks(_, _)
Chunks(s, c) ==
    IF s = <<>> THEN <<>>
    ELSE IF Len(s) <= c THEN <<s>>
    ELSE <<SubSeq(s, 1, c)>> \o Chunks(SubSeq(s, c + 1, Len(s)), c)

InitMiou ==
    /\ DriverIdle /\ sc = Idle /\ fl = Idle
    /\ \E l \in 0..MaxPix :
         \E ps \in [1..l -> PredLabels], gs \in [1..l -> GtLabels] :
           \E c \in 1..(IF l = 0 THEN 1 ELSE l), n \in ClassCounts :
             mi = [on |-> TRUE, predictions |-> Chunks(ps, c),
                   gts |-> Chunks(gs, c), num_classes |-> n,
                   ret |-> [tag |-> "none"]]

MeanIu_call ==
    /\ mi.on /\ mi.ret.tag = "none"
    /\ mi' = [mi EXCEPT !.ret =
                 calculate_mean_iu(mi.predictions, mi.gts, mi.num_classes)]
    /\ UNCHANGED <<drv, sc, fl>>

NextMiou == MeanIu_call

SpecMiou == InitMiou /\ [][NextMiou]_vars

\* The positions of a call: <<map, pixel>>
Positions(maps) ==
    {x \in (1..Len(maps)) \X (1..MaxPix) : x[2] <= Len(maps[x[1]])}

\* IoU_i as the claim states it, from counts of positions
StatedIu(predictions, gts, i) ==
    LET pos == Positions(predictions)
        hit == Cardinality({x \in pos : gts[x[1]][x[2]] = i
                                         /\ predictions[x[1]][x[2]] = i})
        tru == Cardinality({x \in pos : gts[x[1]][x[2]] = i})
        prd == Cardinality({x \in pos : predictions[x[1]][x[2]] = i})
        n_ii == AddCount(Eps, hit)
        t_i == AddCount(Eps, tru)
        sum_n_ji == AddCount(Eps, prd)
    IN  Quot(n_ii, Minus(Plus(t_i, sum_n_ji), n_ii))

\* C4: for every class i < num_classes, IoU_i = n_ii / (t_i + sum_n_ji -
\* n_ii) with the three terms starting at 1e-9 and counting the positions
\* with gt = i and p = i, with gt = i, with p = i; the value returned is
\* the single number (sum of the IoU_i) / num_classes.
C4_MeanIuFormula ==
    (mi.on /\ mi.ret.tag # "none") =>
        /\ mi.ret.tag = "float"
        /\ mi.ret.v =
             SumSeq([c \in 1..mi.num_classes |->
                       StatedIu(mi.predictions, mi.gts, c - 1)])
               \div mi.num_classes

\* a finished call on two maps in which some class is hit, some pixel is
\* mispredicted and some pixel carries the ignore label
C4_Witness ==
    /\ mi.on /\ mi.ret.tag # "none"
    /\ Len(mi.predictions) = 2
    /\ \E x \in Positions(mi.predictions) :
         mi.gts[x[1]][x[2]] = mi.predictions[x[1]][x[2]]
    /\ \E x \in Positions(mi.predictions) :
         mi.gts[x[1]][x[2]] \notin {-1, mi.predictions[x[1]][x[2]]}
    /\ \E x \in Positions(mi.predictions) : mi.gts[x[1]][x[2]] = -1

\* the classes below num_classes that no map of the call holds
AbsentClasses ==
    {i \in 0..(mi.num_classes - 1) :
        \A x \in Positions(mi.predictions) :
            mi.gts[x[1]][x[2]] # i /\ mi.predictions[x[1]][x[2]] # i}

\* C5: a class that occurs in no prediction map and in no ground truth map
\* has IoU 1 (1e-9 / 1e-9), so it adds 1 / num_classes to the mean.
C5_AbsentClassIsOne ==
    (mi.on /\ mi.ret.tag # "none") =>
        \A i \in AbsentClasses :
            /\ ClassIuOf(mi.predictions, mi.gts, i) = Scale
            /\ mi.ret.v =
                 (Scale + SumSeq([c \in 1..mi.num_classes |->
                             IF c - 1 = i THEN 0
                             ELSE StatedIu(mi.predictions, mi.gts, c - 1)]))
                   \div mi.num_classes

\* a finished call with pixels in which one class is absent and another
\* one is present
C5_Witness ==
    /\ mi.on /\ mi.ret.tag # "none"
    /\ AbsentClasses # {}
    /\ AbsentClasses # 0..(mi.num_classes - 1)
    /\ mi.ret.v > Scale \div mi.num_classes

----------------------------------------------------------------------------
(* _fast_hist / scores (utils.py)                                          *)
(* A float that is a quotient of counts is the pair <<num, den>>; 0/0, the *)
(* nan of numpy, is a pair with den = 0.  Maps are held flattened.         *)

Nan == <<0, 0>>
IsNan(x) == x[2] = 0
Frac(a, b) == IF b = 0 THEN Nan ELSE <<a, b>>
FracAdd(x, y) ==
    IF IsNan(x) \/ IsNan(y) THEN Nan
    ELSE <<x[1] * y[2] + y[1] * x[2], x[2] * y[2]>>
FracMul(x, y) ==
    IF IsNan(x) \/ IsNan(y) THEN Nan ELSE <<x[1] * y[1], x[2] * y[2]>>
\* x > 0 of numpy: False for nan
FracPos(x) == ~IsNan(x) /\ x[1] > 0
FracEq(x, y) == ~IsNan(x) /\ ~IsNan(y) /\ x[1] * y[2] = y[1] * x[2]

\* sum of f[i], i in lo..hi
RECURSIVE SumTo(_, _, _)
SumTo(f, lo, hi) == IF lo > hi THEN 0 ELSE f[lo] + SumTo(f, lo + 1, hi)

\* sum of the fractions f[i], i in lo..hi, i in keep
RECURSIVE FracSum(_, _, _, _)
FracSum(f, lo, hi, keep) ==
    IF lo > hi THEN <<0, 1>>
    ELSE IF lo \in keep THEN FracAdd(f[lo], FracSum(f, lo + 1, hi, keep))
    ELSE FracSum(f, lo + 1, hi, keep)

\* np.nanmean over f[0..n-1]
NanMean(f, n) ==
    LET keep == {i \in 0..(n - 1) : ~IsNan(f[i])}
        tot == FracSum(f, 0, n - 1, keep)
    IN  IF keep = {} THEN Nan ELSE <<tot[1], tot[2] * Cardinality(keep)>>

\* line 152, 154-155: n_class * label_true[mask] + label_pred[mask]
RECURSIVE MaskedIndex(_, _, _)
\* (a variant that swaps the two labels in the index)
MaskedIndexMutSwap(label_true, label_pred, n_class) ==
    IF label_true = <<>> THEN <<>>
    ELSE (IF Head(label_true) >= 0 /\ Head(label_true) < n_class
          THEN <<n_class * Head(label_pred) + Head(label_true)>>
          ELSE <<>>)
         \o MaskedIndex(Tail(label_true), Tail(label_pred), n_class)
MaskedIndex(label_true, label_pred, n_class) ==
    IF label_true = <<>> THEN <<>>
    ELSE (IF Head(label_true) >= 0 /\ Head(label_true) < n_class
          THEN <<n_class * Head(label_true) + Head(label_pred)>>
          ELSE <<>>)
         \o MaskedIndex(Tail(label_true), Tail(label_pred), n_class)

RECURSIVE MaxOf(_, _)
MaxOf(xs, m) ==
    IF xs = <<>> THEN m
    ELSE MaxOf(Tail(xs), IF Head(xs) > m THEN Head(xs) ELSE m)

\* np.bincount(xs, minlength): an error for a negative entry, else the
\* counts of 0 .. max(minlength, max(xs) + 1) - 1
BinCount(xs, minlength) ==
    IF \E k \in 1..Len(xs) : xs[k] < 0 THEN [ok |-> FALSE]
    ELSE LET len == MaxOf(xs, minlength - 1) + 1
         IN  [ok |-> TRUE, len |-> len,
              a |-> [b \in 0..(len - 1) |-> CountEq(xs, b)]]

\* .reshape(n_class, n_class): an error unless there are n_class^2 entries
Reshape(flat, n_class) ==
    IF ~flat.ok \/ flat.len # n_class * n_class THEN [ok |-> FALSE]
    ELSE [ok |-> TRUE,
          hist |-> [i \in 0..(n_class - 1) |->
                      [j \in 0..(n_class - 1) |-> flat.a[n_class * i + j]]]]

\* lines 151-156
_fast_hist(label_true, label_pred, n_class) ==
    Reshape(BinCount(MaskedIndex(label_true, label_pred, n_class),
                     n_class * n_class), n_class)

\* line 166: np.zeros((n_class, n_class))
ZeroHist(n_class) == [i \in 0..(n_class - 1) |-> [j \in 0..(n_class - 1) |-> 0]]

HistAdd(h, g, n_class) ==
    [i \in 0..(n_class - 1) |-> [j \in 0..(n_class - 1) |-> h[i][j] + g[i][j]]]

Diag(h, n_class) == [i \in 0..(n_class - 1) |-> h[i][i]]
\* hist.sum(axis=1) and hist.sum(axis=0)
RowSum(h, n_class) == [i \in 0..(n_class - 1) |-> SumTo(h[i], 0, n_class - 1)]
ColSum(h, n_class) ==
    [j \in 0..(n_class - 1) |->
        SumTo([i \in 0..(n_class - 1) |-> h[i][j]], 0, n_class - 1)]
HistTotal(h, n_class) == SumTo(RowSum(h, n_class), 0, n_class - 1)

\* line 172: iu = diag / (row + col - diag)
\* (a variant that leaves out the subtraction of the diagonal)
IuMutNoMinus(h, n_class) ==
    [i \in 0..(n_class - 1) |->
        Frac(h[i][i], RowSum(h, n_class)[i] + ColSum(h, n_class)[i])]
Iu(h, n_class) ==
    [i \in 0..(n_class - 1) |->
        Frac(h[i][i], RowSum(h, n_class)[i] + ColSum(h, n_class)[i] - h[i][i])]

\* line 174: freq = row / total
Freq(h, n_class) ==
    [i \in 0..(n_class - 1) |->
        Frac(RowSum(h, n_class)[i], HistTotal(h, n_class))]

\* line 175: (freq[freq > 0] * iu[freq > 0]).sum()
\* (a variant that sums over all classes)
FwavaccMutNoFilter(h, n_class) ==
    LET freq == Freq(h, n_class)
        iu == Iu(h, n_class)
    IN  FracSum([i \in 0..(n_class - 1) |-> FracMul(freq[i], iu[i])],
                0, n_class - 1, 0..(n_class - 1))
Fwavacc(h, n_class) ==
    LET freq == Freq(h, n_class)
        iu == Iu(h, n_class)
    IN  FracSum([i \in 0..(n_class - 1) |-> FracMul(freq[i], iu[i])],
                0, n_class - 1, {i \in 0..(n_class - 1) : FracPos(freq[i])})

\* lines 169-181: the metrics of a histogram
Metrics(h, n_class) ==
    [acc |-> Frac(SumTo(Diag(h, n_class), 0, n_class - 1),
                  HistTotal(h, n_class)),
     acc_cls |-> NanMean([i \in 0..(n_class - 1) |->
                            Frac(h[i][i], RowSum(h, n_class)[i])], n_class),
     fwavacc |-> Fwavacc(h, n_class),
     mean_iu |-> NanMean(Iu(h, n_class), n_class),
     cls_iu |-> Iu(h, n_class)]

\* The labels of a scores call.  A pixel whose true label is a class holds a
\* predicted class (an argmax over the classes); elsewhere any label.
TrueLabels == -1..2
AnyPred == {-1, 3}
PixelOk(t, p, n_class) ==
    IF t >= 0 /\ t < n_class THEN p \in 0..(n_class - 1) ELSE p \in AnyPred
Pixels(n_class) ==
    {x \in TrueLabels \X (-1..3) : PixelOk(x[1], x[2], n_class)}

InitScores ==
    /\ DriverIdle /\ mi = Idle /\ fl = Idle
    /\ \E l \in 0..MaxPix, n \in ClassCounts :
         \E px \in [1..l -> Pixels(n)] :
           \E c \in 1..(IF l = 0 THEN 1 ELSE l) :
             sc = [on |-> TRUE,
                   label_trues |-> Chunks([k \in 1..l |-> px[k][1]], c),
                   label_preds |-> Chunks([k \in 1..l |-> px[k][2]], c),
                   n_class |-> n,
                   k |-> 0, hist |-> ZeroHist(n), err |-> "none",
                   res |-> [done |-> FALSE]]

\* lines 167-168: one turn of the zip loop
Scores_accumulate ==
    /\ sc.on /\ sc.err = "none" /\ ~sc.res.done
    /\ sc.k < Len(sc.label_trues)
    /\ LET h == _fast_hist(sc.label_trues[sc.k + 1],
                           sc.label_preds[sc.k + 1], sc.n_class)
       IN  IF h.ok
           THEN sc' = [sc EXCEPT !.k = sc.k + 1,
                          !.hist = HistAdd(sc.hist, h.hist, sc.n_class)]
           ELSE sc' = [sc EXCEPT !.err = "ValueError"]
    /\ UNCHANGED <<drv, mi, fl>>

\* lines 169-181
Scores_finish ==
    /\ sc.on /\ sc.err = "none" /\ ~sc.res.done
    /\ sc.k = Len(sc.label_trues)
    /\ sc' = [sc EXCEPT !.res =
                 [done |-> TRUE, m |-> Metrics(sc.hist, sc.n_class)]]
    /\ UNCHANGED <<drv, mi, fl>>

NextScores == Scores_accumulate \/ Scores_finish

SpecScores == InitScores /\ [][NextScores]_vars

\* the pixels of the pairs accumulated so far
SeenPos == {x \in Positions(sc.label_trues) : x[1] <= sc.k}
TrueAt(x) == sc.label_trues[x[1]][x[2]]
PredAt(x) == sc.label_preds[x[1]][x[2]]
InRange(t) == t >= 0 /\ t < sc.n_class

AllPos == Positions(sc.label_trues)
Identical == \A x \in AllPos : TrueAt(x) = PredAt(x)
AllClassesPresent ==
    \A i \in 0..(sc.n_class - 1) : \E x \in AllPos : TrueAt(x) = i

\* C6: for identical prediction and ground truth maps in which every class
\* of [0, n_class) is present, overall accuracy is 1.0 and mean IoU is 1.0.
C6_PerfectScores ==
    (sc.on /\ sc.res.done /\ Identical /\ AllClassesPresent) =>
        /\ FracEq(sc.res.m.acc, <<1, 1>>)
        /\ FracEq(sc.res.m.mean_iu, <<1, 1>>)

C6_Witness ==
    /\ sc.on /\ sc.res.done /\ Identical /\ AllClassesPresent
    /\ \E x \in AllPos : TrueAt(x) = -1
    /\ Len(sc.label_trues) = 2

\* row_sum_i, column sum and diagonal of class i, from the pixels
StatedRow(i) == Cardinality({x \in AllPos : TrueAt(x) = i})
StatedCol(i) ==
    Cardinality({x \in AllPos : InRange(TrueAt(x)) /\ PredAt(x) = i})
StatedDiag(i) == Cardinality({x \in AllPos : TrueAt(x) = i /\ PredAt(x) = i})
StatedTotal == Cardinality({x \in AllPos : InRange(TrueAt(x))})
StatedFwavacc ==
    FracSum([i \in 0..(sc.n_class - 1) |->
               FracMul(Frac(StatedRow(i), StatedTotal),
                       Frac(StatedDiag(i),
                            StatedRow(i) + StatedCol(i) - StatedDiag(i)))],
            0, sc.n_class - 1,
            {i \in 0..(sc.n_class - 1) : StatedRow(i) > 0})

\* C7: the frequency weighted accuracy is the sum of freq_i * IoU_i over
\* exactly the classes with freq_i > 0; each of them has a defined IoU, and
\* the result is never nan when at least one pixel is retained.
C7_FreqWeighted ==
    (sc.on /\ sc.res.done /\ StatedTotal > 0) =>
        /\ ~IsNan(sc.res.m.fwavacc)
        /\ FracEq(sc.res.m.fwavacc, StatedFwavacc)
        /\ \A i \in 0..(sc.n_class - 1) :
             StatedRow(i) > 0 => ~IsNan(sc.res.m.cls_iu[i])

\* a finished call with retained pixels, a class of frequency 0 whose IoU
\* is nan and a class of positive frequency with an IoU below 1
C7_Witness ==
    /\ sc.on /\ sc.res.done /\ StatedTotal > 0
    /\ \E i \in 0..(sc.n_class - 1) :
         StatedRow(i) = 0 /\ IsNan(sc.res.m.cls_iu[i])
    /\ \E i \in 0..(sc.n_class - 1) :
         StatedRow(i) > 0 /\ ~FracEq(sc.res.m.cls_iu[i], <<1, 1>>)

----------------------------------------------------------------------------
(* FocalSigmoidLossFuncV2.forward (utils.py), one element of the tensors   *)

\* Fixed point product and power
FMul(x, y) == (x * y) \div Scale
RECURSIVE FPow(_, _)
FPow(x, g) == IF g = 0 THEN Scale ELSE FMul(x, FPow(x, g - 1))
FAbs(x) == IF x < 0 THEN 0 - x ELSE x

\* The logits of the model: -ln 3, 0 and ln 3
Logits == {-10986, 0, 10986}

\* torch.sigmoid at these logits: 1/4, 1/2, 3/4
Sigmoid(x) == CASE x = -10986 -> 2500 [] x = 0 -> 5000 [] x = 10986 -> 7500

\* log(1 + exp(z)) at these points: ln(4/3), ln 2, ln 4
Log1pExp(z) ==
    CASE z = -10986 -> 2877 [] z = 0 -> 6931 [] z = 10986 -> 13863

\* F.softplus(x, beta, threshold) for beta in {1, -1}:
\* x where beta * x > threshold, else log(1 + exp(beta * x)) / beta
Softplus(x, beta, threshold) ==
    IF beta * x > threshold * Scale THEN x
    ELSE beta * Log1pExp(beta * x)

\* line 66
Probs(logits) == Sigmoid(logits)

\* line 67: (label - probs).abs_().pow_(gamma).neg_()
\* (a variant without neg_)
CoeffMutNoNeg(label, probs, gamma) == FPow(FAbs(label - probs), gamma)
Coeff(label, probs, gamma) == 0 - FPow(FAbs(label - probs), gamma)

\* lines 68-70
LogProbs(logits) ==
    IF logits >= 0 THEN Softplus(logits, -1, 50)
    ELSE logits - Softplus(logits, 1, 50)

\* lines 71-73
Log1Probs(logits) ==
    IF logits >= 0 THEN (0 - logits) + Softplus(logits, -1, 50)
    ELSE 0 - Softplus(logits, 1, 50)

\* lines 74-76
Ce(log_probs, log_1_probs, label, alpha) ==
    FMul(FMul(log_probs, label), alpha)
      + FMul(FMul(log_1_probs, Scale - label), Scale - alpha)

\* line 77
Loss(ce, coeff) == FMul(ce, coeff)

\* alpha and gamma of a call: the defaults of FocalLossV2 and one more each
Alphas == {2500, 5000}
Gammas == {1, 2}

InitFocal ==
    /\ DriverIdle /\ mi = Idle /\ sc = Idle
    /\ \E x \in Logits, l \in {0, Scale}, a \in Alphas, g \in Gammas :
         fl = [on |-> TRUE, logits |-> x, label |-> l, alpha |-> a,
               gamma |-> g, at |-> 66, probs |-> 0, coeff |-> 0,
               log_probs |-> 0, log_1_probs |-> 0, ce |-> 0, loss |-> 0]

Focal_probs ==
    /\ fl.on /\ fl.at = 66
    /\ fl' = [fl EXCEPT !.probs = Probs(fl.logits), !.at = 67]
    /\ UNCHANGED <<drv, mi, sc>>

Focal_coeff ==
    /\ fl.on /\ fl.at = 67
    /\ fl' = [fl EXCEPT !.coeff = Coeff(fl.label, fl.probs, fl.gamma),
                        !.at = 68]
    /\ UNCHANGED <<drv, mi, sc>>

Focal_logs ==
    /\ fl.on /\ fl.at = 68
    /\ fl' = [fl EXCEPT !.log_probs = LogProbs(fl.logits),
                        !.log_1_probs = Log1Probs(fl.logits),
                        !.at = 74]
    /\ UNCHANGED <<drv, mi, sc>>

\* the in-place products leave ce_term1 in log_probs and ce_term2 in
\* log_1_probs, and the sum in ce_term1
Focal_ce ==
    /\ fl.on /\ fl.at = 74
    /\ fl' = [fl EXCEPT
                !.ce = Ce(fl.log_probs, fl.log_1_probs, fl.label, fl.alpha),
                !.log_probs =
                    Ce(fl.log_probs, fl.log_1_probs, fl.label, fl.alpha),
                !.log_1_probs =
                    FMul(FMul(fl.log_1_probs, Scale - fl.label),
                         Scale - fl.alpha),
                !.at = 77]
    /\ UNCHANGED <<drv, mi, sc>>

Focal_loss ==
    /\ fl.on /\ fl.at = 77
    /\ fl' = [fl EXCEPT !.loss = Loss(fl.ce, fl.coeff), !.at = 81]
    /\ UNCHANGED <<drv, mi, sc>>

NextFocal ==
    \/ Focal_probs
    \/ Focal_coeff
    \/ Focal_logs
    \/ Focal_ce
    \/ Focal_loss

SpecFocal == InitFocal /\ [][NextFocal]_vars

\* forward has returned for logits = 0, label = 1, alpha = 0.25, gamma = 2
AtLiteralInput ==
    /\ fl.on /\ fl.at = 81
    /\ fl.logits = 0 /\ fl.label = Scale /\ fl.alpha = 2500 /\ fl.gamma = 2

Near(x, y) == x - y \in -1..1

\* C8 as stated: at logits = 0, label = 1, alpha = 0.25, gamma = 2 the
\* forward pass has coeff = 0.25, ce = -0.1733 and loss = -0.0433, a
\* negative loss.
C8_LiteralAsStated ==
    AtLiteralInput =>
        /\ Near(fl.coeff, 2500)
        /\ Near(fl.ce, -1733)
        /\ Near(fl.loss, -433)
        /\ fl.loss < 0

\* C8 as amended: at that input coeff = -(1 - 0.5)^2 = -0.25,
\* ce = 0.25 * log(0.5) = -0.1733 and loss = ce * coeff = +0.0433, a
\* positive loss.
C8_LiteralAmended ==
    AtLiteralInput =>
        /\ Near(fl.probs, 5000)
        /\ Near(fl.coeff, -2500)
        /\ Near(fl.ce, -1733)
        /\ Near(fl.loss, 433)
        /\ fl.loss > 0

C8_Witness == AtLiteralInput /\ fl.loss # 0

====
